---- MODULE Spec2Model ----
(***************************************************************************)
(* A model of rut, a terminal text editor: the Buffer (a wrapper around a  *)
(* ropey Rope), the Editor event loop that mutates it at the cursor, and   *)
(* the save threads that write snapshots of it to the shared file.         *)
(*                                                                         *)
(* Characters are Unicode scalar values (integers); the file holds bytes.  *)
(***************************************************************************)
EXTENDS Integers, Sequences, FiniteSets, TLC

VARIABLES
    rope,       \* Editor.buffer.rope: the document, a sequence of characters
    cursor,     \* TerminalState: the cursor <<x, y>> (column, row)
    event,      \* the key event the loop read last, <<code, character>>: <<"None", 0>> at first
    state,      \* the process: "Running", "Exiting" (process::exit), "Crashed" (main thread panic)
    coord,      \* the last Option<usize> get_buffer_index returned: <<>> is None, <<k>> is Some(k)
    file,       \* the bytes of the opened file
    filePos,    \* the position of the single shared File handle
    locked,     \* the Mutex<File> is held
    poisoned,   \* the Mutex<File> is poisoned (a thread panicked holding its guard)
    owner,      \* history: the save thread whose file.lock() returned the guard last (0: none yet)
    tasks       \* the spawned save threads, in spawn order: [pc, buffer, n]

vars == <<rope, cursor, event, state, coord, file, filePos, locked, poisoned, owner, tasks>>

\* ------------------------------------------------------------------ bounds
\* the largest document, in characters, the event loop grows the buffer to
MaxLen == 3
\* the largest document, in characters, the editor starts with
MaxInitLen == 1
\* the largest document, in characters, of the runs with save threads
MaxSaveLen == 1
\* the number of save requests (Ctrl+S) of a run
MaxSaves == 2

\* ------------------------------------------------------------- characters
LF == 10
\* the characters typed: 'a', and U+00E9, two bytes in UTF-8
Printable == {97, 233}
Alphabet == Printable \cup {LF}

\* Option<usize>
None == <<>>
Some(k) == <<k>>

\* char::len_utf8, for the scalar values below U+0800
len_utf8(c) == IF c < 128 THEN 1 ELSE 2

\* the UTF-8 encoding of one character (below U+0800)
encode_utf8(c) == IF c < 128 THEN <<c>> ELSE <<192 + (c \div 64), 128 + (c % 64)>>

RECURSIVE Utf8(_)
\* the bytes Rope::write_to writes for the text s
Utf8(s) == IF s = <<>> THEN <<>> ELSE encode_utf8(Head(s)) \o Utf8(Tail(s))

RECURSIVE StrLen(_)
\* String::len of the text s: its length in bytes
StrLen(s) == IF s = <<>> THEN 0 ELSE len_utf8(Head(s)) + StrLen(Tail(s))

\* ------------------------------------------------------------------ Buffer
RECURSIVE SplitLines(_, _)
\* Rope::lines: the lines of s, each with its line feed; the last one has none
\* (and is empty when s is empty or ends with a line feed)
SplitLines(s, cur) ==
    IF s = <<>> THEN <<cur>>
    ELSE IF Head(s) = LF THEN <<Append(cur, LF)>> \o SplitLines(Tail(s), <<>>)
    ELSE SplitLines(Tail(s), Append(cur, Head(s)))

lines(r) == SplitLines(r, <<>>)

\* a variant that counts the line terminators only
line_count_terminators(r) == Cardinality({i \in DOMAIN r : r[i] = LF})

\* Rope::len_lines: the line feeds plus one
line_count(r) == Cardinality({i \in DOMAIN r : r[i] = LF}) + 1

size(r) == Len(r)

\* Rope::line
get_line(r, line) == lines(r)[line + 1]

\* the line as a String, its byte length, less one for a trailing '\n'
line_length(r, line) ==
    LET s == get_line(r, line)
    IN  IF s # <<>> /\ s[Len(s)] = LF THEN StrLen(s) - 1 ELSE StrLen(s)

RECURSIVE line_start_loop(_, _, _, _)
\* the for loop of line_start_index over lines().enumerate(); -1 is unreachable!()
line_start_loop(ls, i, line, index) ==
    IF i >= Len(ls) THEN -1
    ELSE IF i = line THEN index
    ELSE line_start_loop(ls, i + 1, line, index + Len(ls[i + 1]))

\* a variant that leaves the line feeds out of the sum
line_start_index_no_terminator(r, line) ==
    IF line = 0 THEN 0
    ELSE line_start_loop(lines(r), 0, line, 0) - line

line_start_index(r, line) == line_start_loop(lines(r), 0, line, 0)

\* a variant that takes the line length before it checks the row: Rope::line panics
\* on a row past the last one, shown as Some(-1)
get_buffer_index_length_first(r, pos) ==
    LET cursor_x == pos[1]
        cursor_y == pos[2]
    IN  IF cursor_y >= line_count(r) THEN Some(-1)
        ELSE IF cursor_x > line_length(r, cursor_y) THEN None
        ELSE Some(line_start_index(r, cursor_y) + cursor_x)

get_buffer_index(r, pos) ==
    LET cursor_x == pos[1]
        cursor_y == pos[2]
    IN  IF cursor_y >= line_count(r) THEN None
        ELSE IF cursor_x > line_length(r, cursor_y) THEN None
        ELSE Some(line_start_index(r, cursor_y) + cursor_x)

\* Rope::insert_char panics when index > len_chars
insert_ok(r, index) == index <= Len(r)
insert(r, index, character) ==
    SubSeq(r, 1, index) \o <<character>> \o SubSeq(r, index + 1, Len(r))

\* a variant that removes the character after the one at index
delete_next(r, index) == SubSeq(r, 1, index + 1) \o SubSeq(r, index + 3, Len(r))

\* Rope::remove(index..index + 1) panics when the range is out of bounds
delete_ok(r, index) == index >= 0 /\ index + 1 <= Len(r)
delete(r, index) == SubSeq(r, 1, index) \o SubSeq(r, index + 2, Len(r))

\* ---------------------------------------------------------------- Terminal
\* Terminal::move_cursor: one step, kept inside the document's rows and the row's length
move_cursor(r, pos, dir) ==
    LET x == pos[1]
        y == pos[2]
    IN  CASE dir = "Up"    -> IF y > 0 THEN <<x, y - 1>> ELSE pos
          [] dir = "Down"  -> IF y + 1 < line_count(r) THEN <<x, y + 1>> ELSE pos
          [] dir = "Left"  -> IF x > 0 THEN <<x - 1, y>> ELSE pos
          [] dir = "Right" -> IF y < line_count(r) /\ x < line_length(r, y)
                              THEN <<x + 1, y>> ELSE pos

\* Terminal::get_current_buffer_index
get_current_buffer_index == get_buffer_index(rope, cursor)

\* ------------------------------------------------------------------ Editor
FileVars == <<file, filePos, locked, poisoned, owner, tasks>>

\* the main thread panics: the process ends
Panic ==
    /\ state' = "Crashed"
    /\ UNCHANGED <<rope, cursor>>

\* a variant that unwraps the resolved offset instead of matching on it
insert_char_unwrap(character) ==
    LET buffer_coordinate == get_current_buffer_index
    IN  IF buffer_coordinate = None \/ ~insert_ok(rope, buffer_coordinate[1]) THEN Panic
        ELSE /\ rope' = insert(rope, buffer_coordinate[1], character)
             /\ cursor' = move_cursor(rope', cursor,
                                      IF character = LF THEN "Down" ELSE "Right")
             /\ UNCHANGED state

\* insert_char
insert_char(character) ==
    LET buffer_coordinate == get_current_buffer_index
    IN  IF buffer_coordinate = None THEN UNCHANGED <<rope, cursor, state>>
        ELSE IF ~insert_ok(rope, buffer_coordinate[1]) THEN Panic
        ELSE /\ rope' = insert(rope, buffer_coordinate[1], character)
             /\ cursor' = move_cursor(rope', cursor,
                                      IF character = LF THEN "Down" ELSE "Right")
             /\ UNCHANGED state

\* remove_char: buffer_coordinate - 1 underflows at 0 (a panic in a debug build; in a
\* release build it wraps to usize::MAX and Rope::remove panics on the range)
remove_char(delete_mode) ==
    LET buffer_coordinate == get_current_buffer_index
        index == IF delete_mode THEN buffer_coordinate[1] ELSE buffer_coordinate[1] - 1
    IN  IF buffer_coordinate = None THEN UNCHANGED <<rope, cursor, state>>
        ELSE IF ~delete_ok(rope, index) THEN Panic
        ELSE /\ rope' = delete(rope, index)
             /\ cursor' = IF delete_mode THEN cursor ELSE move_cursor(rope', cursor, "Left")
             /\ UNCHANGED state

\* handle_key_event, one action per arm
KeyArrow(dir) ==
    /\ state = "Running"
    /\ event' = <<dir, 0>>
    /\ cursor' = move_cursor(rope, cursor, dir)
    /\ UNCHANGED <<rope, state, coord, FileVars>>

KeyBackspace ==
    /\ state = "Running"
    /\ event' = <<"Backspace", 0>>
    /\ remove_char(FALSE)
    /\ UNCHANGED <<coord, FileVars>>

KeyDelete ==
    /\ state = "Running"
    /\ event' = <<"Delete", 0>>
    /\ remove_char(TRUE)
    /\ UNCHANGED <<coord, FileVars>>

KeyEnter ==
    /\ state = "Running"
    /\ event' = <<"Enter", 0>>
    /\ Len(rope) < MaxLen
    /\ insert_char(LF)
    /\ UNCHANGED <<coord, FileVars>>

KeyChar(c) ==
    /\ state = "Running"
    /\ event' = <<"Char", c>>
    /\ Len(rope) < MaxLen
    /\ insert_char(c)
    /\ UNCHANGED <<coord, FileVars>>

\* exit: std::process::exit(0)
KeyCtrlC ==
    /\ state = "Running"
    /\ event' = <<"CtrlC", 0>>
    /\ state' = "Exiting"
    /\ UNCHANGED <<rope, cursor, coord, FileVars>>

\* a variant of save that waits for the save threads before it returns
KeyCtrlS_join ==
    /\ state = "Running"
    /\ event' = <<"CtrlS", 0>>
    /\ Len(tasks) < MaxSaves
    /\ \A t \in DOMAIN tasks : tasks[t].pc \in {"done", "panicked"}
    /\ tasks' = Append(tasks, [pc |-> "lock", buffer |-> rope, n |-> 0])
    /\ UNCHANGED <<rope, cursor, state, coord, file, filePos, locked, poisoned, owner>>

\* save: clone the buffer and the Arc, spawn the thread, return
KeyCtrlS ==
    /\ state = "Running"
    /\ event' = <<"CtrlS", 0>>
    /\ Len(tasks) < MaxSaves
    /\ tasks' = Append(tasks, [pc |-> "lock", buffer |-> rope, n |-> 0])
    /\ UNCHANGED <<rope, cursor, state, coord, file, filePos, locked, poisoned, owner>>

\* ------------------------------------------------- the spawned save thread
EditorVars == <<rope, cursor, event, state, coord>>

\* the statements at which the thread holds the MutexGuard
Holding == {"set_len", "rewind", "write_set_len", "write_rewind", "write_to"}

\* a variant in which the thread shares the editor's buffer instead of a clone
write_source_live(t) == rope

\* the thread's clone of the buffer, which write_to_file writes
write_source(t) == tasks[t].buffer

\* std::fs::File::write at position pos: a gap past the end is filled with zeros
WriteAt(f, pos, bytes) ==
    LET end == pos + Len(bytes)
        len == IF end > Len(f) THEN end ELSE Len(f)
    IN  [i \in 1..len |->
            IF i > pos /\ i <= end THEN bytes[i - pos]
            ELSE IF i <= Len(f) THEN f[i]
            ELSE 0]

\* a variant without the Mutex
lock_free_always == TRUE

\* the Mutex is free: file.lock() may return
lock_free == ~locked

\* file.lock().expect(..): waits for the Mutex; a poisoned Mutex is an Err, and the
\* panic of expect drops the guard the Err carries
Lock(t) ==
    /\ state = "Running"
    /\ tasks[t].pc = "lock"
    /\ lock_free
    /\ IF poisoned
       THEN /\ tasks' = [tasks EXCEPT ![t].pc = "panicked"]
            /\ UNCHANGED <<locked, owner>>
       ELSE /\ tasks' = [tasks EXCEPT ![t].pc = "set_len"]
            /\ locked' = TRUE
            /\ owner' = t
    /\ UNCHANGED <<EditorVars, file, filePos, poisoned>>

\* a variant that does not truncate the file
SetLen_missing(t) ==
    /\ state = "Running"
    /\ tasks[t].pc \in {"set_len", "write_set_len"}
    /\ tasks' = [tasks EXCEPT ![t].pc =
                    IF tasks[t].pc = "set_len" THEN "rewind" ELSE "write_rewind"]
    /\ UNCHANGED <<EditorVars, file, filePos, locked, poisoned, owner>>

\* file.set_len(0), in save and again in write_to_file
SetLen(t) ==
    /\ state = "Running"
    /\ tasks[t].pc \in {"set_len", "write_set_len"}
    /\ file' = <<>>
    /\ tasks' = [tasks EXCEPT ![t].pc =
                    IF tasks[t].pc = "set_len" THEN "rewind" ELSE "write_rewind"]
    /\ UNCHANGED <<EditorVars, filePos, locked, poisoned, owner>>

\* a variant that leaves the handle where it is
Rewind_missing(t) ==
    /\ state = "Running"
    /\ tasks[t].pc \in {"rewind", "write_rewind"}
    /\ tasks' = [tasks EXCEPT ![t].pc =
                    IF tasks[t].pc = "rewind" THEN "write_set_len" ELSE "write_to"]
    /\ UNCHANGED <<EditorVars, file, filePos, locked, poisoned, owner>>

\* file.rewind(), in save and again in write_to_file
Rewind(t) ==
    /\ state = "Running"
    /\ tasks[t].pc \in {"rewind", "write_rewind"}
    /\ filePos' = 0
    /\ tasks' = [tasks EXCEPT ![t].pc =
                    IF tasks[t].pc = "rewind" THEN "write_set_len" ELSE "write_to"]
    /\ UNCHANGED <<EditorVars, file, locked, poisoned, owner>>

\* rope.write_to(file), a write_all: the next byte of the clone goes to the file
\* (n counts the bytes written)
WriteTo(t) ==
    /\ state = "Running"
    /\ tasks[t].pc = "write_to"
    /\ tasks[t].n < Len(Utf8(write_source(t)))
    /\ file' = WriteAt(file, filePos, <<Utf8(write_source(t))[tasks[t].n + 1]>>)
    /\ filePos' = filePos + 1
    /\ tasks' = [tasks EXCEPT ![t].n = @ + 1]
    /\ UNCHANGED <<EditorVars, locked, poisoned, owner>>

\* a variant that drops the guard before write_to has written every byte
Finish_early(t) ==
    /\ state = "Running"
    /\ tasks[t].pc = "write_to"
    /\ tasks' = [tasks EXCEPT ![t].pc = "done"]
    /\ locked' = FALSE
    /\ UNCHANGED <<EditorVars, file, filePos, poisoned, owner>>

\* write_to returned Ok: the closure ends and the guard is dropped
Finish(t) ==
    /\ state = "Running"
    /\ tasks[t].pc = "write_to"
    /\ tasks[t].n >= Len(Utf8(write_source(t)))
    /\ tasks' = [tasks EXCEPT ![t].pc = "done"]
    /\ locked' = FALSE
    /\ UNCHANGED <<EditorVars, file, filePos, poisoned, owner>>

\* set_len, rewind or write returned Err: expect panics in the spawned thread, the
\* unwinding drops the guard and poisons the Mutex; the other threads go on
IoFail(t) ==
    /\ state = "Running"
    /\ tasks[t].pc \in Holding
    /\ tasks' = [tasks EXCEPT ![t].pc = "panicked"]
    /\ locked' = FALSE
    /\ poisoned' = TRUE
    /\ UNCHANGED <<EditorVars, file, filePos, owner>>

\* ---------------------------------------------------------- specifications
Docs(n) == UNION {[1..k -> Alphabet] : k \in 0..n}

\* Editor::new: the file is read into the buffer, which leaves the handle at its end
InitFile ==
    /\ file = Utf8(rope)
    /\ filePos = Len(file)
    /\ locked = FALSE
    /\ poisoned = FALSE
    /\ owner = 0
    /\ tasks = <<>>

Init ==
    /\ rope \in Docs(MaxInitLen)
    /\ cursor = <<0, 0>>
    /\ event = <<"None", 0>>
    /\ state = "Running"
    /\ coord = None
    /\ InitFile

Next ==
    \/ \E dir \in {"Up", "Down", "Left", "Right"} : KeyArrow(dir)
    \/ KeyBackspace
    \/ KeyDelete
    \/ KeyEnter
    \/ \E c \in Printable : KeyChar(c)
    \/ KeyCtrlC

\* the event loop without save requests
Spec == Init /\ [][Next]_vars

NextSave ==
    \/ (Len(rope) < MaxSaveLen /\ KeyChar(97))
    \/ KeyBackspace
    \/ KeyDelete
    \/ KeyCtrlS
    \/ KeyCtrlC
    \/ \E t \in DOMAIN tasks : Lock(t)
    \/ \E t \in DOMAIN tasks : SetLen(t)
    \/ \E t \in DOMAIN tasks : Rewind(t)
    \/ \E t \in DOMAIN tasks : WriteTo(t)
    \/ \E t \in DOMAIN tasks : Finish(t)
    \/ \E t \in DOMAIN tasks : IoFail(t)

\* a new (empty) file, or a file of one two-byte character
InitSave ==
    /\ rope \in {<<>>, <<233>>}
    /\ cursor = <<0, 0>>
    /\ event = <<"None", 0>>
    /\ state = "Running"
    /\ coord = None
    /\ InitFile

\* the event loop typing 'a', deleting, saving and leaving, with the save threads
\* it spawns
SpecSave == InitSave /\ [][NextSave]_vars

\* Terminal::get_current_buffer_index applied to the buffer and cursor at hand
Resolve ==
    /\ event = <<"None", 0>>
    /\ event' = <<"Resolve", 0>>
    /\ coord' = get_current_buffer_index
    /\ UNCHANGED <<rope, cursor, state, FileVars>>

\* every document and every cursor position, inside the document or not
InitBuf ==
    /\ rope \in Docs(MaxLen)
    /\ cursor \in (0..MaxLen + 1) \X (0..MaxLen + 1)
    /\ event = <<"None", 0>>
    /\ state = "Running"
    /\ coord = None
    /\ InitFile

\* Buffer::insert applied to the buffer at hand, at any offset up to size()
BufInsert(k, c) ==
    /\ event = <<"None", 0>>
    /\ insert_ok(rope, k)
    /\ event' = <<"Insert", c>>
    /\ coord' = Some(k)
    /\ rope' = insert(rope, k, c)
    /\ UNCHANGED <<cursor, state, FileVars>>

\* Buffer::delete applied at the offset of the insert before
BufDelete ==
    /\ event[1] = "Insert"
    /\ delete_ok(rope, coord[1])
    /\ event' = <<"InsertDelete", event[2]>>
    /\ rope' = delete(rope, coord[1])
    /\ UNCHANGED <<cursor, state, coord, FileVars>>

NextBuf ==
    \/ Resolve
    \/ \E k \in 0..MaxLen, c \in Alphabet : BufInsert(k, c)
    \/ BufDelete

\* get_buffer_index, insert and delete on every document and cursor position
SpecBuf == InitBuf /\ [][NextBuf]_vars

\* -------------------------------------------------------------- properties
\* the cursor is at the end of the last line, where it resolves to size()
AtEnd ==
    /\ cursor[2] = line_count(rope) - 1
    /\ get_current_buffer_index = Some(size(rope))

\* C1: handling Backspace with the cursor at column 0 of row 0 (offset 0) changes
\* neither the buffer nor the cursor, and the process does not fail.
C1_BackspaceAtStartIsNoOp ==
    [][(KeyBackspace /\ cursor = <<0, 0>>) => UNCHANGED <<rope, cursor, state>>]_vars

\* C2: handling Delete with the cursor at the end of the last line (offset size())
\* changes neither the buffer nor the cursor, and the process does not fail.
C2_DeleteAtEndIsIgnored ==
    [][(KeyDelete /\ AtEnd) => UNCHANGED <<rope, cursor, state>>]_vars

Finished(t) == tasks[t].pc \in {"done", "panicked"}
HoldsLock(t) == tasks[t].pc \in Holding
Snapshot(t) == Utf8(tasks[t].buffer)

C4_SaveFailureEndsProcess ==
    [][(\E t \in DOMAIN tasks : tasks[t].pc = "panicked")
          => UNCHANGED <<rope, cursor, event, state>>]_vars

\* C5: no key event, the interrupt key included, cuts a dispatched save short: when
\* the process leaves, no save thread is between its lock and the end of its write
\* with the file truncated or partly written.
C5_SaveIsNeverCutShort ==
    state = "Exiting" =>
        \A t \in DOMAIN tasks : HoldsLock(t) => file = Snapshot(t)

\* C6: at most one thread holds the file lock, the Mutex is held exactly while a
\* thread is between its lock and the end of its write, the file and its position
\* change only in a step of the thread holding the lock, and a thread that is done
\* holds nothing.
C6_MutualExclusion ==
    /\ [](/\ Cardinality({t \in DOMAIN tasks : HoldsLock(t)}) <= 1
          /\ locked <=> \E t \in DOMAIN tasks : HoldsLock(t))
    /\ [][(file' # file \/ filePos' # filePos)
             => /\ locked
                /\ \E t \in DOMAIN tasks :
                      /\ HoldsLock(t)
                      /\ tasks'[t] # tasks[t]
                      /\ \A u \in DOMAIN tasks \ {t} : tasks'[u] = tasks[u]]_vars

\* a thread holds the lock with the file half written while another one waits
C6_Witness ==
    \E t, u \in DOMAIN tasks :
        /\ tasks[t].pc = "write_to" /\ tasks[t].n > 0 /\ tasks[t].n < Len(Snapshot(t))
        /\ tasks[u].pc = "lock"
        /\ locked

\* a step of a save thread
ThreadStep ==
    \E t \in DOMAIN tasks :
        Lock(t) \/ SetLen(t) \/ Rewind(t) \/ WriteTo(t) \/ Finish(t) \/ IoFail(t)

\* C7: a save thread's snapshot is the buffer at the moment Ctrl+S is handled and
\* never changes afterwards; while the thread writes, the file holds exactly the
\* first n bytes of that snapshot, whatever was typed or deleted meanwhile; and no
\* step of a save thread changes the editor's buffer.
C7_SnapshotIsolation ==
    /\ [](\A t \in DOMAIN tasks :
             tasks[t].pc = "write_to" =>
                 /\ tasks[t].n <= Len(Snapshot(t))
                 /\ file = SubSeq(Snapshot(t), 1, tasks[t].n))
    /\ [][/\ KeyCtrlS => tasks'[Len(tasks')].buffer = rope
          /\ \A t \in DOMAIN tasks : tasks'[t].buffer = tasks[t].buffer
          /\ ThreadStep => rope' = rope]_vars

\* a thread has written its whole snapshot after the buffer was edited
C7_Witness ==
    \E t \in DOMAIN tasks :
        /\ tasks[t].pc = "write_to"
        /\ tasks[t].n = Len(Snapshot(t)) /\ tasks[t].n > 0
        /\ tasks[t].buffer # rope
        /\ file = Snapshot(t)

\* C8: after Ctrl+S is handled the loop is Running, and a Running loop can take its
\* next event (another save included) whatever the save threads and the lock are at.
C8_SaveNeverBlocks ==
    /\ event = <<"CtrlS", 0>> => state = "Running"
    /\ state = "Running" =>
          /\ ENABLED KeyCtrlC
          /\ Len(tasks) < MaxSaves => ENABLED KeyCtrlS

\* Ctrl+S was handled last, its thread waits for the lock another thread holds
C8_Witness ==
    /\ event = <<"CtrlS", 0>>
    /\ state = "Running"
    /\ Len(tasks) = 2
    /\ HoldsLock(1)
    /\ tasks[2].pc = "lock"

\* the characters of row `row` without its line feed, counted one by one
SpecLineLength(r, row) ==
    LET feeds == {i \in DOMAIN r : r[i] = LF}
        start == IF row = 0 THEN 0
                 ELSE CHOOSE i \in feeds : Cardinality({j \in feeds : j < i}) = row - 1
        later == {i \in feeds : i > start}
        end   == IF later = {} THEN Len(r) + 1
                 ELSE CHOOSE i \in later : \A j \in later : i <= j
    IN  end - start - 1

RECURSIVE SumLineLengths(_, _)
\* the lengths, line feeds included, of the rows before `row`
SumLineLengths(r, row) ==
    IF row = 0 THEN 0 ELSE SumLineLengths(r, row - 1) + SpecLineLength(r, row - 1) + 1

\* offset k back to its row and column: the line feeds before k, and the distance
\* to the last of them
RowOf(r, k) == Cardinality({i \in 1..k : r[i] = LF})
ColOf(r, k) ==
    LET before == {i \in 1..k : r[i] = LF}
    IN  IF before = {} THEN k ELSE k - (CHOOSE i \in before : \A j \in before : j <= i)

Resolved == event = <<"Resolve", 0>>

\* C9: for row < line_count and column <= the row's length in characters,
\* get_buffer_index is Some(k), k the lengths of the rows before plus the column,
\* 0 <= k <= size, and k converts back to (column, row).
C9_ToOffsetOfValidPosition ==
    (/\ Resolved
     /\ cursor[2] < line_count(rope)
     /\ cursor[1] <= SpecLineLength(rope, cursor[2]))
        => /\ coord = Some(SumLineLengths(rope, cursor[2]) + cursor[1])
           /\ coord[1] >= 0 /\ coord[1] <= size(rope)
           /\ RowOf(rope, coord[1]) = cursor[2]
           /\ ColOf(rope, coord[1]) = cursor[1]

\* a position past the first row, after a two-byte character
C9_Witness ==
    /\ Resolved
    /\ rope = <<233, LF, 97>>
    /\ cursor = <<1, 1>>
    /\ coord = Some(3)

\* C10: for row < line_count and column > the row's length in characters,
\* get_buffer_index is None.
C10_ColumnPastEndIsNone ==
    (/\ Resolved
     /\ cursor[2] < line_count(rope)
     /\ cursor[1] > SpecLineLength(rope, cursor[2]))
        => coord = None

\* C11: for a row at or past line_count, get_buffer_index is None whatever the
\* column is; the row is checked before line_length and line_start_index, which
\* are defined on the rows below line_count only, are applied to it.
C11_RowPastEndIsNone ==
    (Resolved /\ cursor[2] >= line_count(rope)) => coord = None

\* a row past the last one of a document of two rows, with a column that would
\* be inside the last row
C11_Witness ==
    /\ Resolved
    /\ rope = <<97, LF, 233>>
    /\ cursor = <<1, 2>>
    /\ coord = None

\* C12: insert(k, c) followed by delete(k), for every document, character c and
\* offset k <= size(), gives back the document the buffer was read from (the file
\* still holds its bytes): the inserted character sits at offset k, delete(k) is
\* within range, and the result has the content, size and line count of before.
C12_InsertDeleteRoundTrip ==
    /\ event[1] = "Insert" =>
          /\ delete_ok(rope, coord[1])
          /\ rope[coord[1] + 1] = event[2]
          /\ StrLen(rope) = Len(file) + len_utf8(event[2])
    /\ event[1] = "InsertDelete" =>
          /\ Utf8(rope) = file
          /\ StrLen(rope) = Len(file)
          /\ line_count(rope) = Cardinality({i \in DOMAIN file : file[i] = LF}) + 1

\* a line feed inserted between two characters and deleted again
C12_Witness ==
    /\ event = <<"InsertDelete", LF>>
    /\ coord = Some(1)
    /\ rope = <<233, 97>>

\* C13: a Backspace, Delete, Enter or character key handled while the cursor
\* resolves to None is dropped: the buffer and the cursor are as before and the
\* editor is still running.
C13_EditWithoutOffsetIsDropped ==
    [][(/\ state = "Running"
        /\ get_current_buffer_index = None
        /\ event'[1] \in {"Backspace", "Delete", "Enter", "Char"})
       => (rope' = rope /\ cursor' = cursor /\ state' = "Running")]_vars

\* a character typed with the cursor on a row that a Backspace has removed
C13_Witness ==
    /\ event = <<"Char", 97>>
    /\ state = "Running"
    /\ rope = <<>>
    /\ cursor = <<0, 1>>
    /\ get_current_buffer_index = None

\* C14: an Enter key handled with the cursor at (c, r) resolving to offset k
\* inserts a line feed at offset k, makes line_count one larger, and leaves the
\* cursor at column 0 of row r + 1.
C14_EnterOpensLineAtColumnZero ==
    [][(/\ state = "Running"
        /\ event'[1] = "Enter"
        /\ get_current_buffer_index # None)
       => (/\ rope' = insert(rope, get_current_buffer_index[1], LF)
           /\ line_count(rope') = line_count(rope) + 1
           /\ cursor' = <<0, cursor[2] + 1>>)]_vars

\* C15: a printable character c handled with the cursor resolving to offset k is
\* inserted at offset k (size one larger, the rest in order), and the cursor moves
\* one column to the right on its row, where it resolves to offset k + 1.
C15_CharInsertsAndAdvances ==
    [][(/\ state = "Running"
        /\ event'[1] = "Char"
        /\ get_current_buffer_index # None)
       => LET k == get_current_buffer_index[1]
          IN  /\ state' = "Running"
              /\ insert_ok(rope, k)
              /\ rope' = insert(rope, k, event'[2])
              /\ size(rope') = size(rope) + 1
              /\ cursor' = <<cursor[1] + 1, cursor[2]>>
              /\ get_buffer_index(rope', cursor') = Some(k + 1)]_vars

\* C16: overlapping saves are serialised by the Mutex and the last one to get the
\* lock wins: once every save thread is done, the file holds the snapshot of the
\* thread that locked the Mutex last, whatever the order of the requests was.
C16_LastLockerWins ==
    (tasks # <<>> /\ \A t \in DOMAIN tasks : tasks[t].pc = "done")
        => /\ owner \in DOMAIN tasks
           /\ file = Snapshot(owner)

\* the save requested first got the lock after the one requested second, and the
\* file holds the first request's snapshot, not the second's
C16_Witness ==
    /\ Len(tasks) = 2
    /\ \A t \in DOMAIN tasks : tasks[t].pc = "done"
    /\ owner = 1
    /\ file = Snapshot(1)
    /\ file # Snapshot(2)
\* C17: in every state the event loop reaches, from any file (the empty one
\* included) and after any inserts and deletes, line_count is at least 1 and is
\* the number of rows lines() yields; the empty document is one empty row.
C17_AtLeastOneLine ==
    /\ line_count(rope) >= 1
    /\ Len(lines(rope)) = line_count(rope)
    /\ rope = <<>> => (line_count(rope) = 1 /\ get_line(rope, 0) = <<>>)

\* the last character of the document has just been deleted
C17_Witness ==
    /\ event[1] \in {"Backspace", "Delete"}
    /\ state = "Running"
    /\ rope = <<>>
    /\ file # <<>>
    /\ line_count(rope) = 1

\* C18: whenever the event loop handles an Enter or a character key and
\* insert_char reaches Buffer::insert, the resolved offset is at most size(): the
\* key does not end in the out-of-range panic of the insert.
C18_InsertWithinBounds ==
    [][(/\ state = "Running"
        /\ event'[1] \in {"Enter", "Char"}
        /\ get_current_buffer_index # None)
       => (/\ get_current_buffer_index[1] <= size(rope)
           /\ state' = "Running")]_vars

\* no save thread holds the Mutex and no I/O call has failed
Quiescent == ~locked /\ ~poisoned /\ \A t \in DOMAIN tasks : ~HoldsLock(t)

\* C19: whenever no save thread holds the Mutex and no I/O call has failed, the
\* file holds either what was read at startup (no thread has locked yet, and the
\* file is untouched until one does) or the whole snapshot of a requested save
\* (that of the last thread to lock); an empty or partly written file is seen
\* only while a thread holds the lock.
C19_QuiescentFileIsWhole ==
    /\ [](Quiescent /\ owner # 0 =>
            /\ owner \in DOMAIN tasks
            /\ tasks[owner].pc = "done"
            /\ file = Snapshot(owner))
    /\ [][owner' = 0 => file' = file]_vars

\* the second request has saved a non-empty snapshot that is not what the editor
\* holds any more, and the first request still waits for the lock
C19_Witness ==
    /\ Quiescent
    /\ Len(tasks) = 2
    /\ tasks[1].pc = "lock"
    /\ owner = 2
    /\ file = Snapshot(2)
    /\ file # <<>>
    /\ file # Utf8(rope)

====
